---- MODULE Spec2Model ----
(***************************************************************************)
(* Model of src/Transform.py: process_data_to_dataframe, the reconstruction*)
(* of the summary history of objects and their time-varying attributes.    *)
(*                                                                         *)
(* Instants (datetime) are naturals 0..MaxT; the open-ended instant        *)
(* datetime(9999, 12, 31, 23, 59, 59) is Sentinel, above every other one.  *)
(* Strings that are sorted or used as column labels are sequences of       *)
(* letter codes (a = 1 .. z = 26), so that sorted() is lexicographic.      *)
(* Attribute names are taken outside the eight fixed column labels, and    *)
(* Object ids are unique, as the docstring of ObjItem says.                *)
(***************************************************************************)
EXTENDS Integers, Sequences, FiniteSets, TLC

\* ---------------------------------------------------------------- bounds
MaxT == 1
MaxObjs == 2
MaxAttrs == 2

\* ------------------------------------------------------------- constants
\* datetime(9999, 12, 31, 23, 59, 59)
Sentinel == MaxT + 1

Times == 0..Sentinel

\* column labels 'id', 'plant', 'scope', 'type', 'etype', 'eid', 'created', 'terminated'
ColId == <<9, 4>>
ColPlant == <<16, 12, 1, 14, 20>>
ColScope == <<19, 3, 15, 16, 5>>
ColType == <<20, 25, 16, 5>>
ColEtype == <<5, 20, 25, 16, 5>>
ColEid == <<5, 9, 4>>
ColCreated == <<3, 18, 5, 1, 20, 5, 4>>
ColTerminated == <<20, 5, 18, 13, 9, 14, 1, 20, 5, 4>>

FixedColumns ==
  <<ColId, ColPlant, ColScope, ColType, ColEtype, ColEid, ColCreated, ColTerminated>>

\* attribute names of the inputs: 'size', 'color'
NameSize == <<19, 9, 26, 5>>
NameColor == <<3, 15, 12, 15, 18>>
Names == {NameSize, NameColor}

\* attribute values of the inputs
Values == {"red", "blue"}

\* the missing cell of a DataFrame
NaN == "NaN"

VARIABLES attributes, objects, pc, obj_attrs, k, result_df

vars == <<attributes, objects, pc, obj_attrs, k, result_df>>

\* ------------------------------------------------------------ data model
AttributeItem(id, objid, def_name, value, created, terminated) ==
  [id |-> id, objid |-> objid, def_name |-> def_name, value |-> value,
   created |-> created, terminated |-> terminated]

ObjItem(id, plant, scope, type, etype, eid, created, terminated) ==
  [id |-> id, plant |-> plant, scope |-> scope, type |-> type, etype |-> etype,
   eid |-> eid, created |-> created, terminated |-> terminated]

Range(s) == {s[i] : i \in DOMAIN s}

\* ----------------------------------------------------- helper operators
\* str.__lt__ : lexicographic order of two strings by code point
LexLess(a, b) ==
  \E i \in 1..Len(b) :
    /\ \A j \in 1..(i - 1) : j <= Len(a) /\ a[j] = b[j]
    /\ (i > Len(a) \/ a[i] < b[i])

RECURSIVE SortedNames(_)
\* sorted(all_attr_names)
SortedNames(S) ==
  IF S = {} THEN <<>>
  ELSE LET m == CHOOSE x \in S : \A y \in S \ {x} : LexLess(x, y)
       IN <<m>> \o SortedNames(S \ {m})

\* variant: only the names of Attributes that reference an Object of the input
NamesOfOwnedAttributes(attrs) ==
  {attrs[i].def_name : i \in {j \in DOMAIN attrs :
                                \E o \in DOMAIN objects : objects[o].id = attrs[j].objid}}

\* get_all_attribute_names
get_all_attribute_names(attrs) == {attrs[i].def_name : i \in DOMAIN attrs}

\* variant: no filter on objid
AttrsOfAnyObj(attrs, id) == attrs

\* [attr for attr in attributes if attr.objid == obj.id]
AttrsOfObj(attrs, id) == SelectSeq(attrs, LAMBDA a : a.objid = id)

\* dict assignment d[key] = val on an insertion-ordered dict
DictSet(d, key, val) ==
  IF \E i \in DOMAIN d : d[i].key = key
  THEN [i \in DOMAIN d |-> IF d[i].key = key THEN [key |-> key, val |-> val] ELSE d[i]]
  ELSE Append(d, [key |-> key, val |-> val])

RECURSIVE GroupAttrs(_, _, _, _)
\* for obj in objects: obj_attrs[obj.id] = [...]
GroupAttrs(d, attrs, objs, i) ==
  IF i > Len(objs) THEN d
  ELSE GroupAttrs(DictSet(d, objs[i].id, AttrsOfObj(attrs, objs[i].id)), attrs, objs, i + 1)

\* next((o for o in objects if o.id == obj_id), None): index of the first match, 0 for None
FindObj(objs, obj_id) ==
  IF \E i \in DOMAIN objs : objs[i].id = obj_id
  THEN CHOOSE i \in DOMAIN objs :
         objs[i].id = obj_id /\ \A j \in 1..(i - 1) : objs[j].id # obj_id
  ELSE 0

RECURSIVE InsertByCreated(_, _)
\* place a behind every element whose created is <= a.created (stable)
InsertByCreated(s, a) ==
  IF s = <<>> THEN <<a>>
  ELSE IF s[Len(s)].created <= a.created THEN Append(s, a)
  ELSE Append(InsertByCreated(SubSeq(s, 1, Len(s) - 1), a), s[Len(s)])

RECURSIVE SortPrefix(_, _)
SortPrefix(attrs, n) ==
  IF n = 0 THEN <<>> ELSE InsertByCreated(SortPrefix(attrs, n - 1), attrs[n])

\* variant: the input order kept
AttrsUnsorted(attrs) == attrs

\* sorted(attrs, key=lambda x: x.created)
AttrsSorted(attrs) == SortPrefix(attrs, Len(attrs))

\* variant: the terminated instants of the Attributes are change dates too
ChangeDatesWithAttrEnd(obj, attrs_sorted) ==
  {attrs_sorted[i].created : i \in DOMAIN attrs_sorted}
    \cup {attrs_sorted[i].terminated : i \in {j \in DOMAIN attrs_sorted :
                                                 attrs_sorted[j].terminated # Sentinel}}
    \cup {obj.created}
    \cup (IF obj.terminated # Sentinel THEN {obj.terminated} ELSE {})

\* variant: the terminated instant of the Object is no change date
ChangeDatesNoObjEnd(obj, attrs_sorted) ==
  {attrs_sorted[i].created : i \in DOMAIN attrs_sorted} \cup {obj.created}

\* the set change_dates
ChangeDates(obj, attrs_sorted) ==
  {attrs_sorted[i].created : i \in DOMAIN attrs_sorted}
    \cup {obj.created}
    \cup (IF obj.terminated # Sentinel THEN {obj.terminated} ELSE {})

RECURSIVE SortedDates(_)
\* sorted(change_dates)
SortedDates(S) ==
  IF S = {} THEN <<>>
  ELSE LET m == CHOOSE x \in S : \A y \in S : x <= y
       IN <<m>> \o SortedDates(S \ {m})

\* variant: every period ends at the end of the Object
PeriodEndAtObjEnd(sorted_dates, i, obj) == obj.terminated

\* sorted_dates[i + 1] if i < len(sorted_dates) - 1 else obj.terminated  (i is 1-based here)
PeriodEnd(sorted_dates, i, obj) ==
  IF i < Len(sorted_dates) THEN sorted_dates[i + 1] ELSE obj.terminated

\* variant: the validity window half-open, [created, terminated)
IsActiveHalfOpen(attr, date) == attr.created <= date /\ attr.terminated > date

\* attr.created <= date and (attr.terminated is None or attr.terminated >= date)
IsActive(attr, date) == attr.created <= date /\ attr.terminated >= date

\* current_attrs[key] = val
DictPut(d, key, val) == [x \in DOMAIN d \cup {key} |-> IF x = key THEN val ELSE d[x]]

EmptyDict == [x \in {} |-> NaN]

RECURSIVE CurrentAttrs(_, _, _, _)
\* the loop that fills current_attrs
CurrentAttrs(cur, attrs_sorted, date, i) ==
  IF i > Len(attrs_sorted) THEN cur
  ELSE CurrentAttrs(
         IF IsActive(attrs_sorted[i], date)
         THEN DictPut(cur, attrs_sorted[i].def_name, attrs_sorted[i].value)
         ELSE cur,
         attrs_sorted, date, i + 1)

\* the dict record: the fixed keys, then **current_attrs, a later key overriding
Record(obj, date, terminated, current_attrs) ==
  [c \in Range(FixedColumns) \cup DOMAIN current_attrs |->
     IF c \in DOMAIN current_attrs THEN current_attrs[c]
     ELSE IF c = ColId THEN obj.id
     ELSE IF c = ColPlant THEN obj.plant
     ELSE IF c = ColScope THEN obj.scope
     ELSE IF c = ColType THEN obj.type
     ELSE IF c = ColEtype THEN obj.etype
     ELSE IF c = ColEid THEN obj.eid
     ELSE IF c = ColCreated THEN date
     ELSE terminated]

\* pd.DataFrame(columns=columns)
EmptyFrame(columns) == [columns |-> columns, rows |-> <<>>]

\* pd.concat([result_df, pd.DataFrame([record])], ignore_index=True):
\* the union of the columns, the frame's first; a cell with no value is NaN.
\* Every key of a record is a column of result_df already, so new is empty.
Concat(df, record) ==
  LET new == SortedNames(DOMAIN record \ Range(df.columns))
      cols == df.columns \o new
      widen(r) == [c \in Range(cols) |-> IF c \in DOMAIN r THEN r[c] ELSE NaN]
  IN [columns |-> cols,
      rows |-> [i \in 1..(Len(df.rows) + 1) |->
                  IF i <= Len(df.rows) THEN widen(df.rows[i]) ELSE widen(record)]]

RECURSIVE EmitRecords(_, _, _, _, _)
\* for i, date in enumerate(sorted_dates): ...
EmitRecords(df, obj, attrs_sorted, sorted_dates, i) ==
  IF i > Len(sorted_dates) THEN df
  ELSE EmitRecords(
         Concat(df, Record(obj, sorted_dates[i], PeriodEnd(sorted_dates, i, obj),
                           CurrentAttrs(EmptyDict, attrs_sorted, sorted_dates[i], 1))),
         obj, attrs_sorted, sorted_dates, i + 1)

\* one iteration of: for obj_id, attrs in obj_attrs.items()
ProcessItem(df, objs, item) ==
  LET j == FindObj(objs, item.key)
  IN IF j = 0 THEN df
     ELSE LET obj == objs[j]
              attrs_sorted == AttrsSorted(item.val)
              sorted_dates == SortedDates(ChangeDates(obj, attrs_sorted))
          IN EmitRecords(df, obj, attrs_sorted, sorted_dates, 1)

\* ----------------------------------------------------------------- inputs
AttrData ==
  {d \in [objid : 1..MaxObjs, def_name : Names, value : Values,
          created : Times, terminated : Times] : d.created <= d.terminated}

ObjData == {w \in [created : Times, terminated : Times] : w.created <= w.terminated}

Init ==
  /\ \E n \in 0..MaxAttrs : \E f \in [1..n -> AttrData] :
       attributes = [i \in 1..n |->
                       AttributeItem(i, f[i].objid, f[i].def_name, f[i].value,
                                     f[i].created, f[i].terminated)]
  /\ \E n \in 0..MaxObjs : \E w \in [1..n -> ObjData] : \E ids \in [1..n -> 1..MaxObjs] :
       /\ \A i, j \in 1..n : i # j => ids[i] # ids[j]
       /\ objects = [i \in 1..n |->
                       ObjItem(ids[i], "plant", "scope", "type", "etype", "eid",
                               w[i].created, w[i].terminated)]
  /\ pc = "start"
  /\ obj_attrs = <<>>
  /\ k = 1
  /\ result_df = EmptyFrame(<<>>)

\* ---------------------------------------------------------------- actions
\* lines 137-147: the columns, the empty frame, the grouping
Setup ==
  /\ pc = "start"
  /\ result_df' = EmptyFrame(FixedColumns \o SortedNames(get_all_attribute_names(attributes)))
  /\ obj_attrs' = GroupAttrs(<<>>, attributes, objects, 1)
  /\ k' = 1
  /\ pc' = "loop"
  /\ UNCHANGED <<attributes, objects>>

\* lines 150-193: one object
ProcessObject ==
  /\ pc = "loop"
  /\ k <= Len(obj_attrs)
  /\ result_df' = ProcessItem(result_df, objects, obj_attrs[k])
  /\ k' = k + 1
  /\ UNCHANGED <<attributes, objects, pc, obj_attrs>>

\* line 195
Return ==
  /\ pc = "loop"
  /\ k > Len(obj_attrs)
  /\ pc' = "done"
  /\ UNCHANGED <<attributes, objects, obj_attrs, k, result_df>>

Next == Setup \/ ProcessObject \/ Return

Spec == Init /\ [][Next]_vars

TypeOK ==
  /\ pc \in {"start", "loop", "done"}
  /\ k \in 1..(MaxObjs + 1)

\* ------------------------------------------------- whole-run reference
RECURSIVE RunItems(_, _, _, _)
\* the loop over obj_attrs.items() from item i on
RunItems(df, objs, d, i) ==
  IF i > Len(d) THEN df ELSE RunItems(ProcessItem(df, objs, d[i]), objs, d, i + 1)

\* process_data_to_dataframe(attributes, objects)
process_data_to_dataframe(attrs, objs) ==
  RunItems(EmptyFrame(FixedColumns \o SortedNames(get_all_attribute_names(attrs))),
           objs, GroupAttrs(<<>>, attrs, objs, 1), 1)

\* ------------------------------------------------ vocabulary of the claims
Done == pc = "done"

Rows == result_df.rows

\* the rows emitted for one object, in emission order
RowsOf(id) == SelectSeq(Rows, LAMBDA r : r[ColId] = id)

\* the Attribute rows of the input that reference an object id
OwnAttrs(id) == {a \in Range(attributes) : a.objid = id}

\* the attribute names that carry a value in a row
NamesIn(r) == {c \in DOMAIN r \ Range(FixedColumns) : r[c] # NaN}

\* a row without its blank cells: the fixed fields and the snapshot
RecordOf(r) ==
  [c \in Range(FixedColumns) \cup NamesIn(r) |-> r[c]]

RecordsOfFrame(df) == [i \in DOMAIN df.rows |-> RecordOf(df.rows[i])]

\* the change-points of an object as the specification lists them
ChangePoints(obj) ==
  {obj.created} \cup {a.created : a \in OwnAttrs(obj.id)}
    \cup {t \in {obj.terminated} : t # Sentinel}

\* the Attribute rows of an object that are valid at T, both ends inclusive
ValidAt(id, T) == {a \in OwnAttrs(id) : a.created <= T /\ a.terminated >= T}

Orphans == {a \in Range(attributes) : \A i \in DOMAIN objects : objects[i].id # a.objid}

\* ------------------------------------------------------------------ C1
\* C1 (as claimed): for every Object the intervals of its records, in order of
\* start instant, tile [Object.created, Object.terminated): the first starts at
\* Object.created, each ends where the next begins, the last ends at
\* Object.terminated, and none runs backwards.
C1_Coverage ==
  Done =>
    \A o \in Range(objects) :
      LET rs == RowsOf(o.id)
      IN /\ Len(rs) >= 1
         /\ rs[1][ColCreated] = o.created
         /\ \A i \in 1..(Len(rs) - 1) : rs[i][ColTerminated] = rs[i + 1][ColCreated]
         /\ rs[Len(rs)][ColTerminated] = o.terminated
         /\ \A i \in 1..Len(rs) : rs[i][ColCreated] <= rs[i][ColTerminated]

\* ------------------------------------------------------------------ C2
\* C2 (as claimed): for every record and every Attribute row of its Object, the
\* Attribute is active at every instant of the record's interval
\* [created, terminated) exactly when it is active at the interval's start.
C2_StableWithinInterval ==
  Done =>
    \A n \in DOMAIN Rows :
      LET r == Rows[n]
      IN \A a \in OwnAttrs(r[ColId]) :
           \A T \in Times :
             (r[ColCreated] <= T /\ T < r[ColTerminated]) =>
               ((a.created <= T /\ a.terminated >= T)
                  <=> (a.created <= r[ColCreated] /\ a.terminated >= r[ColCreated]))

\* ------------------------------------------------------------------ C3
\* C3 (as claimed): an Object with no Attribute of its id, open-ended or not,
\* gets exactly one record, spanning [Object.created, Object.terminated), with
\* an empty attribute snapshot.
C3_NoAttributeObject ==
  Done =>
    \A o \in Range(objects) :
      OwnAttrs(o.id) = {} =>
        LET rs == RowsOf(o.id)
        IN /\ Len(rs) = 1
           /\ rs[1][ColCreated] = o.created
           /\ rs[1][ColTerminated] = o.terminated
           /\ NamesIn(rs[1]) = {}

\* ------------------------------------------------------------------ C4
\* C4: the number of records of an Object is the number of distinct instants in
\* {Object.created} + {created of its Attributes} + {Object.terminated unless
\* open-ended}; Attribute terminated instants add none.
C4_Count ==
  Done =>
    \A o \in Range(objects) :
      Len(RowsOf(o.id)) = Cardinality(ChangePoints(o))

\* an Object with two Attributes created at one instant (a duplicate) and one of
\* them terminated at an instant that is no change-point
C4_Witness ==
  /\ Done
  /\ \E o \in Range(objects) : \E a, b \in OwnAttrs(o.id) :
       /\ a.id # b.id
       /\ a.created = b.created
       /\ a.terminated # Sentinel
       /\ a.terminated \notin ChangePoints(o)
       /\ Len(RowsOf(o.id)) = 2

C6_TieBreak ==
  Done =>
    \A n \in DOMAIN Rows :
      LET r == Rows[n]
      IN \A nm \in Names :
           LET act == {a \in ValidAt(r[ColId], r[ColCreated]) : a.def_name = nm}
           IN act # {} =>
                \E a \in act :
                  /\ \A b \in act : b.created <= a.created
                  /\ r[nm] = a.value

\* the old value ends at the instant the new one starts, the new one comes
\* first in the input, and the record starting there reports the new value
C6_Witness ==
  /\ Done
  /\ \E n \in DOMAIN Rows : \E a, b \in OwnAttrs(Rows[n][ColId]) :
       /\ a.def_name = b.def_name
       /\ a.value # b.value
       /\ a.created < b.created
       /\ a.terminated = b.created
       /\ b.id < a.id
       /\ Rows[n][ColCreated] = b.created
       /\ Rows[n][b.def_name] = b.value

\* ------------------------------------------------------------------ C7
\* C7: the columns are the eight fixed ones followed by the def_name of every
\* Attribute of the input, whatever its objid, in lexicographic order; every
\* row has all of them, with the active value where its snapshot has the name
\* and a blank where it has not.
C7_GlobalColumns ==
  Done =>
    LET cols == result_df.columns
        m == Len(FixedColumns)
    IN /\ Len(cols) >= m
       /\ SubSeq(cols, 1, m) = FixedColumns
       /\ {cols[i] : i \in (m + 1)..Len(cols)} = {a.def_name : a \in Range(attributes)}
       /\ \A i, j \in (m + 1)..Len(cols) : i < j => LexLess(cols[i], cols[j])
       /\ \A n \in DOMAIN Rows :
            /\ DOMAIN Rows[n] = Range(cols)
            /\ \A i \in (m + 1)..Len(cols) :
                 LET act == {a \in ValidAt(Rows[n][ColId], Rows[n][ColCreated]) :
                               a.def_name = cols[i]}
                 IN IF act = {} THEN Rows[n][cols[i]] = NaN
                    ELSE \E a \in act : Rows[n][cols[i]] = a.value

\* two Objects, one with 'size' only and one with 'color' only: both columns,
\* 'color' before 'size', each Object blank in the other's column
C7_Witness ==
  /\ Done
  /\ result_df.columns = FixedColumns \o <<NameColor, NameSize>>
  /\ \E n1, n2 \in DOMAIN Rows :
       /\ Rows[n1][ColId] # Rows[n2][ColId]
       /\ Rows[n1][NameSize] # NaN /\ Rows[n1][NameColor] = NaN
       /\ Rows[n2][NameColor] # NaN /\ Rows[n2][NameSize] = NaN

\* ------------------------------------------------------------------ C8
\* C8: the names carrying a value in a record that starts at T are exactly the
\* def_name of the Object's Attributes with created <= T and terminated >= T,
\* and every value reported is that of such an Attribute.
C8_SnapshotContent ==
  Done =>
    \A n \in DOMAIN Rows :
      LET r == Rows[n]
          act == {a \in OwnAttrs(r[ColId]) :
                    a.created <= r[ColCreated] /\ a.terminated >= r[ColCreated]}
      IN /\ NamesIn(r) = {a.def_name : a \in act}
         /\ \A nm \in NamesIn(r) : \E a \in act : a.def_name = nm /\ a.value = r[nm]

\* a record that starts exactly at the terminated instant of an Attribute it
\* reports, and omits the name of an Attribute that is not yet created
C8_Witness ==
  /\ Done
  /\ \E n \in DOMAIN Rows : \E a, b \in OwnAttrs(Rows[n][ColId]) :
       /\ a.created < a.terminated
       /\ a.terminated = Rows[n][ColCreated]
       /\ Rows[n][a.def_name] = a.value
       /\ b.def_name # a.def_name
       /\ b.created > Rows[n][ColCreated]
       /\ Rows[n][b.def_name] = NaN

\* ------------------------------------------------------------------ C9
\* C9: the records of one Object come in strictly ascending created, their
\* created are exactly the Object's change-points, each but the last ends at
\* the created of the next, and the last ends at Object.terminated (the
\* open-ended sentinel unchanged).
C9_Chain ==
  Done =>
    \A o \in Range(objects) :
      LET rs == RowsOf(o.id)
      IN /\ \A i, j \in 1..Len(rs) : i < j => rs[i][ColCreated] < rs[j][ColCreated]
         /\ {rs[i][ColCreated] : i \in 1..Len(rs)} = ChangePoints(o)
         /\ \A i \in 1..(Len(rs) - 1) : rs[i][ColTerminated] = rs[i + 1][ColCreated]
         /\ Len(rs) >= 1
         /\ rs[Len(rs)][ColTerminated] = o.terminated

\* an open-ended Object with three records, the Attributes given latest first
C9_Witness ==
  /\ Done
  /\ \E o \in Range(objects) : \E a, b \in OwnAttrs(o.id) :
       /\ o.terminated = Sentinel
       /\ a.id < b.id
       /\ b.created < a.created
       /\ Len(RowsOf(o.id)) >= 2
       /\ RowsOf(o.id)[Len(RowsOf(o.id))][ColTerminated] = Sentinel

\* ------------------------------------------------------------------ C10
\* C10: every record of an Object but its last has created < terminated; the
\* last record of an Object that is not open-ended has terminated =
\* Object.terminated and created >= Object.terminated.
C10_IntervalLength ==
  Done =>
    \A o \in Range(objects) :
      LET rs == RowsOf(o.id)
      IN /\ \A i \in 1..(Len(rs) - 1) : rs[i][ColCreated] < rs[i][ColTerminated]
         /\ o.terminated # Sentinel =>
              /\ Len(rs) >= 1
              /\ rs[Len(rs)][ColTerminated] = o.terminated
              /\ rs[Len(rs)][ColCreated] >= o.terminated

\* an Attribute created after the end of its Object: a last record that runs
\* backwards, after a record of positive length
C10_Witness ==
  /\ Done
  /\ \E o \in Range(objects) :
       LET rs == RowsOf(o.id)
       IN /\ o.terminated # Sentinel
          /\ Len(rs) >= 2
          /\ rs[1][ColCreated] < rs[1][ColTerminated]
          /\ rs[Len(rs)][ColCreated] > rs[Len(rs)][ColTerminated]
====
